---- MODULE Spec2Model ----
(***************************************************************************)
(* NeighborTable (crates/accelerate/src/sabre_swap/neighbor_table.rs):     *)
(* construction of the per-node neighbor lists from a dense adjacency      *)
(* matrix, sequentially or with one rayon task per row, and the pickle     *)
(* surface __getstate__ / __setstate__.                                    *)
(***************************************************************************)
EXTENDS Integers, Sequences, FiniteSets, TLC

\* Bounds of the model.  NodeIndexMax stands for u32::MAX, the largest value
\* of the index PhysicalQubit::new takes (crate::nlayout); it is scaled down
\* so that a matrix can have column positions on both sides of it.
MaxRows == 3
MaxCells == 6
NodeIndexMax == 1

\* f64 matrix entries: both zeros, an ordinary nonzero value and NaN.
F64Vals == {"0.0", "-0.0", "1.0", "NaN"}

\* The two NeighborTable objects of the pickle scenario: T is built by
\* NeighborTable(adjacency_matrix), U is the object its state is restored into.
Tables == {"T", "U"}

None == <<>>
Some(x) == <<x>>

Ok(v) == [kind |-> "Ok", value |-> v, error |-> <<>>]
Err(e) == [kind |-> "Err", value |-> <<>>, error |-> <<e>>]
Pending == [kind |-> "Pending", value |-> <<>>, error |-> <<>>]

\* std::num::TryFromIntError(()): a unit payload, no position in it.
TryFromIntError == [type |-> "TryFromIntError", payload |-> <<>>]

\* The shapes R x C with R <= MaxRows and at most MaxCells entries, and all
\* arrays of these shapes (PyReadonlyArray2<f64>).
Shapes == {s \in (0..MaxRows) \X (0..MaxCells) : s[1] * s[2] <= MaxCells}
Matrices ==
    UNION {{[ncols |-> s[2], rows |-> m] : m \in [1..s[1] -> [1..s[2] -> F64Vals]]} :
           s \in Shapes}

VARIABLES
    adjacency_matrix,   \* Option<PyReadonlyArray2<f64>>: None or Some(matrix)
    run_in_parallel,    \* getenv_use_multiple_threads()
    pc,                 \* "new", "seq", "par", "ready", "failed"
    rows_done,          \* sequential collect: rows gathered so far
    task,               \* parallel collect: state of each row task
    slot,               \* parallel collect: Ok row of each finished task
    completed,          \* parallel collect: row tasks in completion order
    saved_error,        \* parallel collect: first error saved
    error_row,          \* history: row whose error is reported
    result,             \* PyResult<Self> returned by new
    prev,               \* history: outcome of the construction in the other mode
    neighbors,          \* self.neighbors of each table (None: no object)
    exported,           \* value last returned by __getstate__
    snapshot,           \* history: mapping of the exported table at that call
    last_state          \* history: argument of the latest __setstate__ per table

vars == <<adjacency_matrix, run_in_parallel, pc, rows_done, task, slot, completed,
          saved_error, error_row, result, prev, neighbors, exported, snapshot,
          last_state>>

scan_vars == <<rows_done, task, slot, completed, saved_error>>
state_vars == <<exported, snapshot, last_state>>

----
\* (variant: the zero test compares bit patterns, so -0.0 counts as an edge)
F64EqZero_bitwise(value) == value = "0.0"

\* line 50: *value == 0.  (IEEE: -0.0 == 0.0, NaN != 0.0)
F64EqZero(value) == value \in {"0.0", "-0.0"}

\* (variant: an `as` cast, which wraps instead of failing)
try_into_truncating(row_index) == Ok(row_index % (NodeIndexMax + 1))

\* (variant: the error carries the position that failed)
try_into_reporting(row_index) ==
    IF row_index <= NodeIndexMax THEN Ok(row_index)
    ELSE Err([type |-> "TryFromIntError", payload |-> <<row_index>>])

\* line 53: usize -> u32 try_into
try_into(row_index) ==
    IF row_index <= NodeIndexMax THEN Ok(row_index) ELSE Err(TryFromIntError)

\* PhysicalQubit::new(index): a newtype around the index
PhysicalQubit_new(index) == index

\* lines 47-59: enumerate the row, keep the nonzero positions, convert each,
\* collect into PyResult<Vec<_>> (stops at the first Err).
RECURSIVE collect_row(_, _, _)
collect_row(row, row_index, acc) ==
    IF row_index = Len(row) THEN Ok(acc)
    ELSE IF F64EqZero(row[row_index + 1]) THEN collect_row(row, row_index + 1, acc)
    ELSE LET c == try_into(row_index) IN
         IF c.kind = "Ok"
         THEN collect_row(row, row_index + 1, Append(acc, PhysicalQubit_new(c.value)))
         ELSE Err(c.error[1])

build_neighbors(row) == collect_row(row, 0, <<>>)

\* lines 68-71 as a whole: the sequential collect over the rows.
RECURSIVE collect_rows(_, _, _)
collect_rows(rows, i, acc) ==
    IF i > Len(rows) THEN Ok(acc)
    ELSE LET r == build_neighbors(rows[i]) IN
         IF r.kind = "Ok" THEN collect_rows(rows, i + 1, Append(acc, r.value))
         ELSE Err(r.error[1])

new_sequential(m) == IF m = None THEN Ok(<<>>) ELSE collect_rows(m[1].rows, 1, <<>>)

\* (variant: the copy loop stops one row short)
clone_truncated(v) == [i \in 1..(Len(v) - 1) |-> v[i]]

\* Vec::clone: a deep copy, element by element
clone_row(row) == [k \in 1..Len(row) |-> row[k]]
clone(v) == [i \in 1..Len(v) |-> clone_row(v[i])]

----
Init ==
    /\ adjacency_matrix \in {None} \cup {Some(m) : m \in Matrices}
    /\ run_in_parallel \in BOOLEAN
    /\ pc = "new"
    /\ rows_done = <<>>
    /\ task = <<>>
    /\ slot = <<>>
    /\ completed = <<>>
    /\ saved_error = None
    /\ error_row = 0
    /\ result = Pending
    /\ prev = None
    /\ neighbors = [t \in Tables |-> None]
    /\ exported = None
    /\ snapshot = None
    /\ last_state = [t \in Tables |-> None]

\* (variant: no matrix gives one empty row)
new_None_one_row ==
    /\ pc = "new"
    /\ adjacency_matrix = None
    /\ result' = Ok(<< <<>> >>)
    /\ neighbors' = [neighbors EXCEPT !["T"] = Some(<< <<>> >>)]
    /\ pc' = "ready"
    /\ UNCHANGED <<adjacency_matrix, run_in_parallel, scan_vars, error_row, prev,
                   state_vars>>

\* lines 74-76: no matrix
new_None ==
    /\ pc = "new"
    /\ adjacency_matrix = None
    /\ result' = Ok(<<>>)
    /\ neighbors' = [neighbors EXCEPT !["T"] = Some(<<>>)]
    /\ pc' = "ready"
    /\ UNCHANGED <<adjacency_matrix, run_in_parallel, scan_vars, error_row, prev,
                   state_vars>>

\* (variant: a matrix that is not square is rejected)
new_Some_square_only ==
    /\ pc = "new"
    /\ adjacency_matrix # None
    /\ LET n == Len(adjacency_matrix[1].rows) IN
       IF n # adjacency_matrix[1].ncols
       THEN /\ pc' = "failed"
            /\ result' = Err(TryFromIntError)
            /\ UNCHANGED <<task, slot>>
       ELSE IF run_in_parallel
       THEN /\ pc' = "par"
            /\ task' = [i \in 1..n |-> "pending"]
            /\ slot' = [i \in 1..n |-> <<>>]
            /\ UNCHANGED result
       ELSE /\ pc' = "seq"
            /\ UNCHANGED <<task, slot, result>>
    /\ UNCHANGED <<adjacency_matrix, run_in_parallel, rows_done, completed,
                   saved_error, error_row, prev, neighbors, state_vars>>

\* lines 44-61, 67: a matrix; choose the collect by run_in_parallel
new_Some ==
    /\ pc = "new"
    /\ adjacency_matrix # None
    /\ LET n == Len(adjacency_matrix[1].rows) IN
       IF run_in_parallel
       THEN /\ pc' = "par"
            /\ task' = [i \in 1..n |-> "pending"]
            /\ slot' = [i \in 1..n |-> <<>>]
       ELSE /\ pc' = "seq"
            /\ UNCHANGED <<task, slot>>
    /\ UNCHANGED <<adjacency_matrix, run_in_parallel, rows_done, completed,
                   saved_error, error_row, result, prev, neighbors, state_vars>>

\* lines 68-71, 76: one step of the sequential collect
seq_next ==
    /\ pc = "seq"
    /\ LET rows == adjacency_matrix[1].rows
           i == Len(rows_done) + 1
       IN IF i > Len(rows)
          THEN /\ result' = Ok(rows_done)
               /\ neighbors' = [neighbors EXCEPT !["T"] = Some(rows_done)]
               /\ pc' = "ready"
               /\ UNCHANGED <<rows_done, error_row>>
          ELSE LET r == build_neighbors(rows[i]) IN
               IF r.kind = "Ok"
               THEN /\ rows_done' = Append(rows_done, r.value)
                    /\ UNCHANGED <<result, neighbors, pc, error_row>>
               ELSE /\ result' = Err(r.error[1])
                    /\ error_row' = i
                    /\ pc' = "failed"
                    /\ UNCHANGED <<rows_done, neighbors>>
    /\ UNCHANGED <<adjacency_matrix, run_in_parallel, task, slot, completed,
                   saved_error, prev, state_vars>>

\* lines 62-65: the task of row i runs build_neighbors; an Err is saved if it is
\* the first one (rayon's Result collect)
par_task(i) ==
    /\ pc = "par"
    /\ i \in DOMAIN task
    /\ task[i] = "pending"
    /\ LET r == build_neighbors(adjacency_matrix[1].rows[i]) IN
       IF r.kind = "Ok"
       THEN /\ task' = [task EXCEPT ![i] = "done"]
            /\ slot' = [slot EXCEPT ![i] = r.value]
            /\ UNCHANGED <<saved_error, error_row>>
       ELSE /\ task' = [task EXCEPT ![i] = "failed"]
            /\ saved_error' = IF saved_error = None THEN r.error ELSE saved_error
            /\ error_row' = IF saved_error = None THEN i ELSE error_row
            /\ UNCHANGED slot
    /\ completed' = Append(completed, i)
    /\ UNCHANGED <<adjacency_matrix, run_in_parallel, pc, rows_done, result, prev,
                   neighbors, state_vars>>

\* lines 62-66: once a task has failed, rows not yet started may be dropped
par_skip(i) ==
    /\ pc = "par"
    /\ i \in DOMAIN task
    /\ task[i] = "pending"
    /\ \E k \in DOMAIN task : task[k] = "failed"
    /\ task' = [task EXCEPT ![i] = "skipped"]
    /\ UNCHANGED <<adjacency_matrix, run_in_parallel, pc, rows_done, slot, completed,
                   saved_error, error_row, result, prev, neighbors, state_vars>>

\* (variant: the rows are gathered in the order the tasks finished)
par_collect_in_completion_order ==
    /\ pc = "par"
    /\ \A i \in DOMAIN task : task[i] # "pending"
    /\ IF saved_error # None
       THEN /\ result' = Err(saved_error[1])
            /\ pc' = "failed"
            /\ UNCHANGED neighbors
       ELSE /\ result' = Ok([k \in DOMAIN completed |-> slot[completed[k]]])
            /\ neighbors' = [neighbors EXCEPT
                                !["T"] = Some([k \in DOMAIN completed |-> slot[completed[k]]])]
            /\ pc' = "ready"
    /\ UNCHANGED <<adjacency_matrix, run_in_parallel, scan_vars, error_row, prev,
                   state_vars>>

\* (variant: the saved error is ignored and the rows gathered are returned)
par_collect_partial ==
    /\ pc = "par"
    /\ \A i \in DOMAIN task : task[i] # "pending"
    /\ result' = Ok([i \in DOMAIN slot |-> slot[i]])
    /\ neighbors' = [neighbors EXCEPT !["T"] = Some([i \in DOMAIN slot |-> slot[i]])]
    /\ pc' = "ready"
    /\ UNCHANGED <<adjacency_matrix, run_in_parallel, scan_vars, error_row, prev,
                   state_vars>>

\* line 66, 76: the collect ends: the saved error, or the rows in row order
par_collect ==
    /\ pc = "par"
    /\ \A i \in DOMAIN task : task[i] # "pending"
    /\ IF saved_error # None
       THEN /\ result' = Err(saved_error[1])
            /\ pc' = "failed"
            /\ UNCHANGED neighbors
       ELSE /\ result' = Ok([i \in DOMAIN slot |-> slot[i]])
            /\ neighbors' = [neighbors EXCEPT !["T"] = Some([i \in DOMAIN slot |-> slot[i]])]
            /\ pc' = "ready"
    /\ UNCHANGED <<adjacency_matrix, run_in_parallel, scan_vars, error_row, prev,
                   state_vars>>

\* lines 41-42: the same matrix is constructed again under the other policy
new_again ==
    /\ pc \in {"ready", "failed"}
    /\ prev = None
    /\ prev' = Some([parallel |-> run_in_parallel, result |-> result])
    /\ run_in_parallel' = ~run_in_parallel
    /\ pc' = "new"
    /\ rows_done' = <<>>
    /\ task' = <<>>
    /\ slot' = <<>>
    /\ completed' = <<>>
    /\ saved_error' = None
    /\ error_row' = 0
    /\ result' = Pending
    /\ neighbors' = [t \in Tables |-> None]
    /\ exported' = None
    /\ snapshot' = None
    /\ UNCHANGED <<adjacency_matrix, last_state>>

\* lines 79-81
getstate(t) ==
    /\ pc = "ready"
    /\ neighbors[t] # None
    /\ exported' = Some(clone(neighbors[t][1]))
    /\ snapshot' = Some([of |-> t, value |-> neighbors[t][1]])
    /\ UNCHANGED <<adjacency_matrix, run_in_parallel, pc, scan_vars, error_row,
                   result, prev, neighbors, last_state>>

\* (variant: the state is appended to the mapping instead of replacing it)
setstate_extend(t, state) ==
    /\ pc = "ready"
    /\ neighbors[t] # None
    /\ neighbors' = [neighbors EXCEPT ![t] = Some(neighbors[t][1] \o state)]
    /\ last_state' = [last_state EXCEPT ![t] = Some(state)]
    /\ UNCHANGED <<adjacency_matrix, run_in_parallel, pc, scan_vars, error_row,
                   result, prev, exported, snapshot>>

\* (variant: the state is checked, each row ascending with indices below the
\* row count)
setstate_validating(t, state) ==
    /\ pc = "ready"
    /\ neighbors[t] # None
    /\ \A i \in DOMAIN state :
          /\ \A k \in 1..(Len(state[i]) - 1) : state[i][k] < state[i][k + 1]
          /\ \A k \in DOMAIN state[i] : state[i][k] < Len(state)
    /\ neighbors' = [neighbors EXCEPT ![t] = Some(state)]
    /\ last_state' = [last_state EXCEPT ![t] = Some(state)]
    /\ UNCHANGED <<adjacency_matrix, run_in_parallel, pc, scan_vars, error_row,
                   result, prev, exported, snapshot>>

\* lines 83-85
setstate(t, state) ==
    /\ pc = "ready"
    /\ neighbors[t] # None
    /\ neighbors' = [neighbors EXCEPT ![t] = Some(state)]
    /\ last_state' = [last_state EXCEPT ![t] = Some(state)]
    /\ UNCHANGED <<adjacency_matrix, run_in_parallel, pc, scan_vars, error_row,
                   result, prev, exported, snapshot>>

Next ==
    \/ new_None
    \/ new_Some
    \/ seq_next
    \/ \E i \in 1..MaxRows : par_task(i)
    \/ \E i \in 1..MaxRows : par_skip(i)
    \/ par_collect
    \/ new_again
    \/ getstate("T")

Spec == Init /\ [][Next]_vars

----
\* The pickle scenario.  T has been built (from a matrix of the bounded set, or
\* from None), U has been built by NeighborTable(); the matrix is only borrowed
\* by new (line 45) and is gone by then.
BuiltTables ==
    {new_sequential(a).value :
        a \in {b \in {None} \cup {Some(m) : m \in Matrices} : new_sequential(b).kind = "Ok"}}

\* Arguments of __setstate__ beside a value exported before: no rows; an unsorted
\* row with an index >= the row count; a row with a duplicate; a well-formed state.
StateVals ==
    { <<>>,
      << <<1, 0>> >>,
      << <<0, 0>>, <<>> >>,
      << <<1>>, <<0>> >> }

InitState ==
    /\ adjacency_matrix = None
    /\ run_in_parallel \in BOOLEAN
    /\ pc = "ready"
    /\ rows_done = <<>>
    /\ task = <<>>
    /\ slot = <<>>
    /\ completed = <<>>
    /\ saved_error = None
    /\ error_row = 0
    /\ \E b \in BuiltTables :
         /\ result = Ok(b)
         /\ neighbors = [t \in Tables |-> IF t = "T" THEN Some(b) ELSE Some(<<>>)]
    /\ prev = None
    /\ exported = None
    /\ snapshot = None
    /\ last_state = [t \in Tables |-> None]

\* __setstate__ is called with a state of StateVals or with the value exported
restore(t) ==
    \E state \in StateVals \cup {exported[k] : k \in DOMAIN exported} : setstate(t, state)

NextState ==
    \/ \E t \in Tables : getstate(t)
    \/ \E t \in Tables : restore(t)

SpecState == InitState /\ [][NextState]_vars

----
\* Vocabulary of the properties, stated on the matrix itself.
M == adjacency_matrix[1]
NRows == Len(M.rows)
Done == pc \in {"ready", "failed"}
NonZero(v) == v # "0.0" /\ v # "-0.0"
IsSquare == NRows = M.ncols
\* every column position 0..ncols-1 is a value of the node-index type
AllFit == M.ncols - 1 <= NodeIndexMax
\* the columns (0-based) of row i that hold a nonzero entry
EdgeCols(i) == {j \in 0..(M.ncols - 1) : NonZero(M.rows[i][j + 1])}
\* the nonzero entries whose column position is not a node index
Offending == {<<i, j>> \in (1..NRows) \X (0..(M.ncols - 1)) :
                 NonZero(M.rows[i][j + 1]) /\ j > NodeIndexMax}
StrictlyAscending(s) == \A k \in 1..(Len(s) - 1) : s[k] < s[k + 1]
IsListOf(s, S) == StrictlyAscending(s) /\ {s[k] : k \in DOMAIN s} = S
\* the table returned is the whole adjacency of the matrix, row by row
WholeTable ==
    /\ result.kind = "Ok"
    /\ neighbors["T"] = Some(result.value)
    /\ Len(result.value) = NRows
    /\ \A i \in 1..NRows : IsListOf(result.value[i], EdgeCols(i))

\* C1: for a square matrix whose column positions all fit the node index,
\* new never fails, and the table it returns has one row per matrix row, in
\* row order, row i being the strictly ascending list of exactly the columns
\* with a nonzero entry (diagonal included, nothing mirrored into other rows).
C1_SquareMatrixTable ==
    (adjacency_matrix # None /\ IsSquare /\ AllFit) =>
        /\ pc # "failed"
        /\ result.kind # "Err"
        /\ pc = "ready" => WholeTable

\* a 2 x 2 matrix with a self-loop, two different nonzero values, a negative
\* zero and a one-way edge 0 -> 1, built by the row tasks
C1_Witness ==
    /\ adjacency_matrix = Some([ncols |-> 2,
                                rows |-> << <<"1.0", "NaN">>, <<"-0.0", "0.0">> >>])
    /\ run_in_parallel
    /\ pc = "ready"
    /\ result = Ok(<< <<0, 1>>, <<>> >>)

\* C10: squareness is not checked.  For a non-square R x C matrix whose column
\* positions all fit, new never fails and returns R rows, row i the ascending
\* list of its nonzero columns; and for a square one every index in the table
\* is below the number of rows.
C10_NonSquareMatrixTable ==
    /\ (adjacency_matrix # None /\ ~IsSquare /\ AllFit) =>
          /\ pc # "failed"
          /\ result.kind # "Err"
          /\ pc = "ready" => WholeTable
    /\ (adjacency_matrix # None /\ IsSquare /\ pc = "ready") =>
          \A i \in 1..Len(result.value) : \A k \in 1..Len(result.value[i]) :
              result.value[i][k] < Len(result.value)

\* a 1 x 2 matrix: the only row holds node index 1, and the table has 1 row
C10_Witness ==
    /\ adjacency_matrix # None
    /\ NRows = 1 /\ M.ncols = 2
    /\ pc = "ready"
    /\ result.kind = "Ok"
    /\ \E k \in 1..Len(result.value[1]) : result.value[1][k] >= Len(result.value)

\* C2: the same matrix built under the other policy gives the same outcome:
\* the same rows in the same order with the same neighbor order, or a failure
\* in both; the order in which the row tasks finish does not show.
C2_SameInBothModes ==
    (prev # None /\ Done) =>
        /\ run_in_parallel # prev[1].parallel
        /\ result = prev[1].result

\* the parallel build, after the sequential one, of a matrix whose two rows
\* differ, the task of row 2 having finished before the task of row 1
C2_Witness ==
    /\ prev # None
    /\ run_in_parallel
    /\ pc = "ready"
    /\ completed = <<2, 1>>
    /\ result.value[1] # result.value[2]

\* C4: construction is all or nothing.  new fails exactly if some row has a
\* nonzero entry at a column position that is no node index; a failure returns
\* no table, whichever failing row reports it, and a success returns every row.
C4_AllOrNothing ==
    adjacency_matrix # None =>
        /\ Done => (result.kind = "Err" <=> Offending # {})
        /\ pc = "failed" <=> result.kind = "Err"
        /\ result.kind = "Err" =>
              /\ neighbors["T"] = None
              /\ error_row \in {o[1] : o \in Offending}
        /\ pc = "ready" => WholeTable
        /\ pc # "ready" => neighbors["T"] = None

\* both row tasks failed, and the error reported is the one of row 2
C4_Witness ==
    /\ run_in_parallel
    /\ pc = "failed"
    /\ task = <<"failed", "failed">>
    /\ completed = <<2, 1>>
    /\ error_row = 2

\* C5 as stated: every N x N matrix with N above the largest node index fails.
C5_LargeDimensionFails ==
    (adjacency_matrix # None /\ IsSquare /\ NRows > NodeIndexMax /\ Done) =>
        result.kind = "Err"

\* C5, amended: a matrix with more columns than the largest node index fails,
\* with the conversion error, exactly if a nonzero entry lies at a column
\* position above the largest node index; otherwise it succeeds, and every
\* index stored is the position of a nonzero entry of its row (no truncation).
C5_LargeDimensionFailsIffOffending ==
    (adjacency_matrix # None /\ M.ncols > NodeIndexMax /\ Done) =>
        /\ result.kind = "Err" <=> Offending # {}
        /\ result.kind = "Err" => result.error = <<TryFromIntError>>
        /\ result.kind = "Ok" =>
              \A i \in 1..Len(result.value) : \A k \in 1..Len(result.value[i]) :
                  result.value[i][k] \in EdgeCols(i)

\* a 2 x 3 matrix whose last column is zero, built into a table with edges
C5_Witness ==
    /\ adjacency_matrix # None
    /\ NRows = 2 /\ M.ncols = NodeIndexMax + 2
    /\ pc = "ready"
    /\ result.kind = "Ok"
    /\ result.value[1] # <<>>

\* C6: without a matrix new succeeds under both policies with a table of zero
\* rows, and __getstate__ on it returns the empty sequence.
C6_NoMatrix ==
    adjacency_matrix = None =>
        /\ pc \in {"new", "ready"}
        /\ result.kind # "Err"
        /\ pc = "ready" => (result = Ok(<<>>) /\ neighbors["T"] = Some(<<>>))
        /\ exported # None => exported = Some(<<>>)

\* the empty table built under the parallel policy, after the sequential one,
\* and exported
C6_Witness ==
    /\ adjacency_matrix = None
    /\ run_in_parallel
    /\ prev # None
    /\ pc = "ready"
    /\ exported = Some(<<>>)

\* the first column of row i that cannot be converted
FirstOffendingCol(i) ==
    CHOOSE j \in {o[2] : o \in {q \in Offending : q[1] = i}} :
        \A o \in Offending : o[1] = i => j <= o[2]

\* C8 as stated: the error of a failed construction carries the column
\* position that could not be converted.
C8_ErrorNamesPosition ==
    (adjacency_matrix # None /\ pc = "failed") =>
        \E k \in DOMAIN result.error[1].payload :
            result.error[1].payload[k] = FirstOffendingCol(error_row)

\* C8, amended: the error of a failed construction is the conversion error,
\* the same whatever the position that failed (it carries none), and no table
\* is returned.
C8_ErrorIsPositionFree ==
    (adjacency_matrix # None /\ pc = "failed") =>
        /\ result.error[1].type = "TryFromIntError"
        /\ result.error[1].payload = <<>>
        /\ result.value = <<>>
        /\ neighbors["T"] = None

\* a failure at a column that is not the first one beyond the node indices
C8_Witness ==
    /\ adjacency_matrix # None
    /\ pc = "failed"
    /\ FirstOffendingCol(error_row) > NodeIndexMax + 1

\* C3: a table whose latest __setstate__ argument is the value __getstate__
\* returned for a table holds the mapping that table had at that call, be it
\* the same table or the other one.
C3_RoundTrip ==
    \A u \in Tables :
        (exported # None /\ last_state[u] = exported) =>
            neighbors[u] = Some(snapshot[1].value)

\* T, built from a matrix with edges and never restored, exported and restored
\* into U
C3_Witness ==
    /\ last_state["T"] = None
    /\ result.value # <<>>
    /\ result.value[1] # <<>>
    /\ exported # None
    /\ snapshot[1].of = "T"
    /\ last_state["U"] = exported
    /\ neighbors["U"] = neighbors["T"]

\* the mapping a table got from its construction
Constructed(t) == IF t = "T" THEN result.value ELSE <<>>

C7_Mapping ==
    \A t \in Tables :
        neighbors[t] = IF last_state[t] = None THEN Some(Constructed(t)) ELSE last_state[t]

C7_Frame ==
    /\ (exported' # exported \/ snapshot' # snapshot) => neighbors' = neighbors
    /\ (neighbors' # neighbors \/ last_state' # last_state) => exported' = exported

\* C7: the mapping of a ready table is the one its construction produced while
\* no __setstate__ has been called on it, and exactly the argument of the
\* latest __setstate__ afterwards; __getstate__ changes no mapping, and a
\* __setstate__ does not change the value __getstate__ returned before.
C7_MappingIsLatestState == []C7_Mapping /\ [][C7_Frame]_vars

\* T was exported and then restored from another state: the exported value is
\* still the old mapping
C7_Witness ==
    /\ exported # None
    /\ snapshot[1].of = "T"
    /\ last_state["T"] # None
    /\ exported # neighbors["T"]
    /\ exported = Some(result.value)
    /\ result.value # <<>>

C9_Accepts ==
    \A t \in Tables : \A state \in StateVals :
        /\ ENABLED setstate(t, state)
        /\ last_state[t] = Some(state) => neighbors[t] = Some(state)

C9_Replays ==
    \A t \in Tables :
        (neighbors' # neighbors /\ last_state'[t] # None /\ neighbors'[t] # neighbors[t]) =>
            /\ neighbors'[t] = last_state'[t]
            /\ \A u \in Tables \ {t} : neighbors'[u] = neighbors[u]

C9_Returns ==
    \A t \in Tables :
        ((exported' # exported \/ snapshot' # snapshot) /\ snapshot'[1].of = t
            /\ last_state[t] # None) =>
            exported' = last_state[t]

\* C9: __setstate__ accepts every state, checked or not for shape (unsorted
\* rows, duplicates, indices beyond the row count, another row count), and
\* makes it the mapping of the table as it is: a __getstate__ that follows
\* returns that state.
C9_SetStateVerbatim == []C9_Accepts /\ [][C9_Replays /\ C9_Returns]_vars

\* U, built with no rows, restored from a one-row state that is unsorted and
\* names node 1, then exported
C9_Witness ==
    /\ last_state["U"] = Some(<< <<1, 0>> >>)
    /\ neighbors["U"] = Some(<< <<1, 0>> >>)
    /\ exported = Some(<< <<1, 0>> >>)
    /\ snapshot[1].of = "U"

====
